---- MODULE Spec2Model ----
(***************************************************************************)
(* Progressive virtualized grid renderer of LunaTV.                        *)
(*                                                                         *)
(* The components are modelled as one state machine, selected by `grid`   *)
(* and `policy`:                                                           *)
(*   "search", "buffered" : VirtualSearchGrid                              *)
(*                          (src/src/components/VirtualSearchGrid.tsx)     *)
(*   "douban", "buffered" : VirtualDoubanGrid (src/unnamed/part_000,       *)
(*                          lines 260-522)                                 *)
(*   "douban", "exact"    : VirtualDoubanGrid (src/unnamed/part_000,       *)
(*                          lines 1-259)                                   *)
(*   "search", "exact"    : the older VirtualSearchGrid                    *)
(*                          (src/unnamed/part_000, lines 523-826)          *)
(*                                                                         *)
(* A React function component is modelled by what one render pass          *)
(* computes: props and hook state are variables, a useMemo is a stored     *)
(* value with its dependency list, a callback created by useCallback is    *)
(* the record of the render values it captured, and a timer created by     *)
(* setTimeout keeps the closure it was created with until it fires.        *)
(* Every handler (prop change, visible-range notification, timer firing)   *)
(* is one action that includes the render pass it causes.  A passive       *)
(* effect (useEffect) runs after the render pass that scheduled it, so a   *)
(* render whose reset effect is due is followed by a separate step.        *)
(***************************************************************************)
EXTENDS Integers, Sequences, FiniteSets, TLC

VARIABLES
    grid,               \* which component: "search" or "douban"
    policy,             \* row-count policy of the variant: "buffered" or "exact"
    filteredAggResults, \* prop (search): aggregated results array
    filteredResults,    \* prop (search): flat results array
    doubanData,         \* prop (douban): catalog items array
    viewMode,           \* prop (search): "agg" or "all"
    hasMore,            \* prop (douban): remote source has more pages
    columnCount,        \* useResponsiveGrid output
    containerWidth,     \* useResponsiveGrid output: measured container width
    visibleItemCount,   \* useState: number of revealed items
    isLoadingMore,      \* useState (search) / prop (douban): load in flight
    exposure,           \* useMemo: [deps, val] of the exposure computation
    resetDeps,          \* dependency list the reset effect last ran with
    cellDataRef,        \* useRef: the data the cells read through getCellData
    CellComponent,      \* useCallback: [deps, val] with val the identity
    stableCellProps,    \* useMemo: [deps, val] with val the identity
    groupStatsRef,      \* prop (search): the Map of group key to statistics
    groupContent,       \* content of the groups the results arrays refer to
    pc,                 \* "idle", or "effects" when the reset effect is due
    timers,             \* pending setTimeout callbacks, in scheduling order
    burst,              \* scheduling notifications since the trigger was idle
    calls,              \* loadMoreItems invocations since the burst began
    ev,                 \* what the last step did
    cache,              \* spider jar module: the cached SpiderJarInfo or Null
    clock,              \* spider jar module: Date.now()
    invocations,        \* spider jar module: the state of each getSpiderJar call
    jev                 \* what the last step of the spider jar module did

\* The variables of the grid components
viewVars == <<grid, policy, filteredAggResults, filteredResults, doubanData,
              viewMode, hasMore, columnCount, visibleItemCount, isLoadingMore,
              exposure, resetDeps, cellDataRef, CellComponent, stableCellProps,
              groupStatsRef, groupContent, containerWidth, pc, timers,
              burst, calls, ev>>

\* The variables of the spider jar module
jarVars == <<cache, clock, invocations, jev>>

vars == <<viewVars, jarVars>>

----------------------------------------------------------------------------
(* Bounds of the model *)

SmallLen == 5      \* a data source shorter than the initial batch
ShortLen == 15     \* a data source that ends inside the first load-more batch
MidLen == 20       \* a data source of one or two batches
MaxLen == 40       \* the longest data source
TwoBatchLen == 25  \* the longest search results: two load-more batches
MaxBurst == 2      \* the burst counters saturate here
MaxCellIndex == 2  \* the Grid executes the cells up to this index
MaxPending == 2    \* deferred calls pending at once in the older search grid
MaxCalls == 2      \* getSpiderJar calls, which may overlap
MaxEpochs == 1     \* the clock runs to MaxEpochs * TTL
NarrowColumns == 2 \* column counts the layout provider reports
WideColumns == 4

DataLens == {0, SmallLen, ShortLen, MidLen, MaxLen}
SearchLens == {0, SmallLen, ShortLen, TwoBatchLen}
AggLens == {MidLen}              \* lengths of the aggregated results
ColumnCounts == {NarrowColumns, WideColumns}

----------------------------------------------------------------------------
(* Program constants *)

SEARCH_INITIAL_BATCH_SIZE == 12
SEARCH_LOAD_MORE_BATCH_SIZE == 8
DOUBAN_INITIAL_BATCH_SIZE == 16
DOUBAN_LOAD_MORE_BATCH_SIZE == 16
LOAD_MORE_THRESHOLD == 5
SEARCH_BUFFER_ITEMS == 30
DOUBAN_BUFFER_ITEMS == 50
DEBOUNCE_MS == 150
LOAD_MS == 100
OLDER_DEBOUNCE_MS == 100
MIN_CONTAINER_WIDTH == 100
TTL == 6 * 60 * 60 * 1000
MIN_JAR_BYTES == 1000
ERROR_STATUS == 400

\* The getSpiderJar calls, numbered in the order in which they are made
Calls == 1..MaxCalls

\* Values of Date.now(): the load of the module, and one millisecond before
\* and exactly at the multiples of the TTL after it
Times == {0} \cup UNION {{k * TTL - 1, k * TTL} : k \in 1..MaxEpochs}

\* Measured widths: not measured yet, at the threshold and above it
ContainerWidths == {0, MIN_CONTAINER_WIDTH, MIN_CONTAINER_WIDTH + 1}

INITIAL_BATCH_SIZE(g) ==
    IF g = "search" THEN SEARCH_INITIAL_BATCH_SIZE ELSE DOUBAN_INITIAL_BATCH_SIZE

LOAD_MORE_BATCH_SIZE(g) ==
    IF g = "search" THEN SEARCH_LOAD_MORE_BATCH_SIZE ELSE DOUBAN_LOAD_MORE_BATCH_SIZE

----------------------------------------------------------------------------
(* Arithmetic of Math.min, Math.max, Math.ceil *)

Min(a, b) == IF a < b THEN a ELSE b

Max(a, b) == IF a > b THEN a ELSE b

Ceil(a, b) == (a + b - 1) \div b

----------------------------------------------------------------------------
(* Data sources: an array is a reference (its identity), and its items.    *)
(* Item i of the array with reference r and kind q (1 aggregated results,  *)
(* 2 flat results, 3 catalog items) is the number 1000*r + 100*q + i: a    *)
(* new array holds new item objects.  Identities are compared only         *)
(* with the identity the same prop had in the previous render pass, so a   *)
(* prop alternates between two references: 1, 2 for filteredAggResults,    *)
(* 3, 4 for filteredResults and 5, 6 for doubanData.                       *)

Array(r, q, n) == [ref |-> r, q |-> q, len |-> n]

Items(d) == [i \in 1..d.len |-> 1000 * d.ref + 100 * d.q + i]

Slice(d, n) == SubSeq(Items(d), 1, n)

\* A new array in the place of d, of length n
NewArray(d, n) ==
    Array(IF d.ref % 2 = 1 THEN d.ref + 1 ELSE d.ref - 1, d.q, n)

----------------------------------------------------------------------------
(* The exposure computation (useMemo) *)

SearchExposure(vm, agg, all, vis) ==
    LET data == IF vm = "agg" THEN agg ELSE all
        total == data.len
        itemCount == Min(vis, total)
        slicedData == Slice(data, itemCount)
        hasNext == itemCount < total
    IN  [currentData |-> data,
         totalItemCount |-> total,
         displayItemCount |-> itemCount,
         displayData |-> slicedData,
         hasNextPage |-> hasNext]

SearchExposureDeps(vm, agg, all, vis) == <<vm, agg.ref, all.ref, vis>>

DoubanExposure(vis, dd, hm) ==
    LET itemCount == Min(vis, dd.len)
        data == Slice(dd, itemCount)
        hasNext == itemCount < dd.len \/ hm
    IN  [currentData |-> dd,
         totalItemCount |-> dd.len,
         displayItemCount |-> itemCount,
         displayData |-> data,
         hasNextPage |-> hasNext]

\* (variant for C10: hasMore is missing from the dependency list)
DoubanExposureDepsNoHasMore(vis, dd, hm) == <<vis, dd.ref>>

DoubanExposureDeps(vis, dd, hm) == <<vis, dd.ref, hm>>

\* useMemo keeps the previous value unless a dependency changed
UseMemo(prev, deps, val) ==
    IF prev.deps = deps THEN prev ELSE [deps |-> deps, val |-> val]

\* The exposure part of one render pass of the component
Render(g, vm, agg, all, dd, vis, hm) ==
    IF g = "search"
    THEN UseMemo(exposure, SearchExposureDeps(vm, agg, all, vis),
                 SearchExposure(vm, agg, all, vis))
    ELSE UseMemo(exposure, DoubanExposureDeps(vis, dd, hm),
                 DoubanExposure(vis, dd, hm))

\* The exposure of the first render pass (no previous value)
FirstRender(g, vm, agg, all, dd, vis, hm) ==
    IF g = "search"
    THEN [deps |-> SearchExposureDeps(vm, agg, all, vis),
          val |-> SearchExposure(vm, agg, all, vis)]
    ELSE [deps |-> DoubanExposureDeps(vis, dd, hm),
          val |-> DoubanExposure(vis, dd, hm)]

\* Values of the last render pass
displayItemCount == exposure.val.displayItemCount

displayData == exposure.val.displayData

hasNextPage == exposure.val.hasNextPage

totalItemCount == exposure.val.totalItemCount

currentData == exposure.val.currentData

\* The data source the component is given
DataSourceOf(g, vm, agg, all, dd) ==
    IF g = "search" THEN (IF vm = "agg" THEN agg ELSE all) ELSE dd

dataSource ==
    DataSourceOf(grid, viewMode, filteredAggResults, filteredResults, doubanData)

BUFFER_ITEMS(g) ==
    IF g = "search" THEN SEARCH_BUFFER_ITEMS ELSE DOUBAN_BUFFER_ITEMS

\* (variant for C19: the buffer rows are rounded down)
BufferedRowCountRoundedDown(g, count, cc) ==
    Max(1, Ceil(count, cc) + (BUFFER_ITEMS(g) \div cc))

\* Row count under the buffered policy
BufferedRowCount(g, count, cc) ==
    LET actualRows == Ceil(count, cc)
        bufferRows == Ceil(BUFFER_ITEMS(g), cc)
    IN  Max(1, actualRows + bufferRows)

\* (variant for C18: no floor of one row)
ExactRowCountNoFloor(count, cc) == Ceil(count, cc)

\* Row count under the exact policy
ExactRowCount(count, cc) == Max(1, Ceil(count, cc))

\* (variant for C22: the Grid is rendered whatever the measured width)
RenderBranchNoWidthGuard(total, width) ==
    IF total = 0 THEN "empty" ELSE "grid"

\* The branch of the returned element: the empty-results placeholder, the
\* initializing placeholder or the Grid
RenderBranch(total, width) ==
    IF total = 0 THEN "empty"
    ELSE IF width <= MIN_CONTAINER_WIDTH THEN "initializing"
    ELSE "grid"

\* The render branch that instantiates the Grid
GridRendered == RenderBranch(totalItemCount, containerWidth) = "grid"

\* Row count handed to the Grid
rowCount ==
    IF policy = "buffered"
    THEN BufferedRowCount(grid, displayItemCount, columnCount)
    ELSE ExactRowCount(displayItemCount, columnCount)

----------------------------------------------------------------------------
(* The reset effect: useEffect(..., [currentData, viewMode]) in the search *)
(* grid, useEffect(..., [doubanData]) in the catalog grid                  *)

\* (variant for C8: the effect depends on the view mode only)
ResetEffectDepsViewOnly(g, exp, vm, dd) == IF g = "search" THEN <<0, vm>> ELSE <<0>>

ResetEffectDeps(g, exp, vm, dd) ==
    IF g = "search" THEN <<exp.val.currentData.ref, vm>> ELSE <<dd.ref>>

\* Position after a render pass: the reset effect is due when its deps changed
AfterRender(g, exp, vm, dd) ==
    IF ResetEffectDeps(g, exp, vm, dd) # resetDeps THEN "effects" ELSE "idle"

----------------------------------------------------------------------------
(* The cell-rendering callback and the data it reads                       *)

\* What a render pass writes to cellDataRef in its passive effect
CellData(exp, vm, cc) ==
    [displayData |-> exp.val.displayData,
     displayItemCount |-> exp.val.displayItemCount,
     columnCount |-> cc,
     viewMode |-> vm]

\* cellDataRef after a render pass: the effect that writes it runs with the
\* passive effects of the pass, so it has not run while effects are due
CellDataAfter(pcAfter, exp, vm, cc) ==
    IF pcAfter = "idle" THEN CellData(exp, vm, cc) ELSE cellDataRef

\* (variant for C16: cellProps depends on the layout values)
CellPropsDepsOnLayout(pol, exp, cc) == <<cc, exp.val.displayItemCount>>

\* Dependency list of the useMemo that creates cellProps; in the older
\* search grid it holds displayData, viewMode and displayItemCount, which
\* are new exactly when the exposure is recomputed, and columnCount
CellPropsDeps(pol, exp, cc) ==
    IF pol = "buffered" THEN <<>>
    ELSE IF grid = "search" THEN <<exp.deps, cc>>
    ELSE <<cc, exp.val.displayItemCount>>

\* A newly created object: identities alternate between 0 and 1
NewIdentity(prev) == 1 - prev.val

\* useCallback(..., []) of the cell-rendering callback in a render pass
CellComponentAfter == UseMemo(CellComponent, <<>>, NewIdentity(CellComponent))

\* useMemo of cellProps in a render pass
CellPropsAfter(exp, cc) ==
    UseMemo(stableCellProps, CellPropsDeps(policy, exp, cc),
            NewIdentity(stableCellProps))

\* What a cell obtains when it executes in the render pass of a step: the
\* content of cellDataRef at that time (the effects of the previous pass
\* have run); the exact variant passes columnCount and displayItemCount in
\* cellProps and reads displayData through the ref; the older search grid
\* passes all of it in cellProps
getCellData(exp, cc) ==
    LET ref == IF pc = "effects" THEN CellData(exposure, viewMode, columnCount)
               ELSE cellDataRef
    IN  IF policy = "buffered" THEN ref
        ELSE IF grid = "search" THEN CellData(exp, exp.deps[1], cc)
        ELSE [ref EXCEPT !.columnCount = cc,
                         !.displayItemCount = exp.val.displayItemCount]

\* The cell at (rowIndex, columnIndex): 0 is the empty placeholder
ResolveCell(cd, rowIndex, columnIndex) ==
    LET index == rowIndex * cd.columnCount + columnIndex
    IN  IF index >= cd.displayItemCount THEN 0
        ELSE IF index + 1 > Len(cd.displayData) THEN 0
        ELSE cd.displayData[index + 1]

\* An item of the aggregated results is [mapKey, group]: the key is the
\* position of the group in the results, and the members of the group are
\* those of the array the item belongs to
mapKey(item) == item % 100

group(item) == item \div 1000

\* The statistics of a group (a prop of the component), computed from the
\* members the group has when the cell executes: the episode count differs
\* between two successive results arrays, and changes when the parent changes
\* the members of a group in place
computeGroupStats(g) == [episodes |-> 1 + ((g + groupContent) % 2)]

\* The kind of the emitted card
type(stats) == IF stats.episodes = 1 THEN "movie" ELSE "tv"

\* The statistics the emitted card of a group shows
CardStats(statsMap, g, key) == computeGroupStats(g)

\* (variant for C20: the cell writes the statistics on every resolution)
CacheAfterCellOverwrite(statsMap, key, stats) ==
    [k \in DOMAIN statsMap \cup {key} |->
        IF k = key THEN stats ELSE statsMap[k]]

\* groupStatsRef.current after the cell of a group resolved
CacheAfterCell(statsMap, key, stats) ==
    IF key \in DOMAIN statsMap THEN statsMap
    ELSE [k \in DOMAIN statsMap \cup {key} |->
             IF k = key THEN stats ELSE statsMap[k]]

----------------------------------------------------------------------------
(* Closures and timers *)

\* loadMoreItems as created by the last render pass: the values it captured
loadMoreItems ==
    [isLoadingMore |-> isLoadingMore,
     hasNextPage |-> hasNextPage,
     totalItemCount |-> totalItemCount,
     displayItemCount |-> displayItemCount,
     dataLength |-> doubanData.len,
     hasMore |-> hasMore]

\* The older search grid
Older == grid = "search" /\ policy = "exact"

\* The deferred call scheduled by memoizedOnCellsRendered
DebounceTimer ==
    [kind |-> "debounce",
     delay |-> IF Older THEN OLDER_DEBOUNCE_MS ELSE DEBOUNCE_MS,
     isLoadingMore |-> isLoadingMore, hasNextPage |-> hasNextPage,
     lm |-> loadMoreItems, stale |-> FALSE]

\* The simulated load scheduled by loadMoreItems of the search grid
LoadTimer(lm) ==
    [kind |-> "load", delay |-> LOAD_MS,
     isLoadingMore |-> lm.isLoadingMore, hasNextPage |-> lm.hasNextPage,
     lm |-> lm, stale |-> FALSE]

\* Bookkeeping: a pending timer is stale once the identity of the data source
\* changed after the timer was scheduled
MarkStale(ts, changed) ==
    IF changed THEN [i \in 1..Len(ts) |-> [ts[i] EXCEPT !.stale = TRUE]] ELSE ts

Remove(ts, i) == SubSeq(ts, 1, i - 1) \o SubSeq(ts, i + 1, Len(ts))

Debounces(ts) == {i \in 1..Len(ts) : ts[i].kind = "debounce"}

Loads(ts) == {i \in 1..Len(ts) : ts[i].kind = "load"}

\* (variant for C3: the handler schedules without clearing the previous call)
KeepDebounce(ts) == ts

\* clearTimeout(debounceRef.current): debounceRef holds the deferred call
\* scheduled last; clearing a call that has fired does nothing
ClearDebounce(ts) ==
    IF Debounces(ts) = {} THEN ts
    ELSE Remove(ts, CHOOSE i \in Debounces(ts) : \A j \in Debounces(ts) : j <= i)

\* Timers fire in the order of their deadlines: a timer scheduled earlier
\* with a delay that is not longer fires first
Fireable(ts, i) == \A j \in 1..(i - 1) : ts[j].delay > ts[i].delay

----------------------------------------------------------------------------------------------------------------------------------------------------
(* What a step did, for the properties below *)

Event(op, requestMore, onLoadMore, stale, row, cancelled, column) ==
    [op |-> op, requestMore |-> requestMore, onLoadMore |-> onLoadMore,
     stale |-> stale, row |-> row, cancelled |-> cancelled, column |-> column]

----------------------------------------------------------------------------
(* The spider jar module (part_001): its records *)

\* let cache: SpiderJarInfo | null = null
Null == [source |-> -1]

\* A SpiderJarInfo: source is the position of the url in CANDIDATES or
\* Fallback; buffer is the content (md5 and size are functions of it)
SpiderJarInfo(buffer, source, success, cached, timestamp, tried) ==
    [buffer |-> buffer, source |-> source, success |-> success,
     cached |-> cached, timestamp |-> timestamp, tried |-> tried]

NoInfo == SpiderJarInfo(-1, -1, FALSE, FALSE, 0, 0)

\* A call that has not been made yet, a call that has returned, and a call
\* suspended at await fetchRemote(url) of candidate number tried, with the
\* now it read at its start
NotCalled == [now |-> 0, tried |-> 0, contacted |-> <<>>]

Returned == [now |-> 0, tried |-> -1, contacted |-> <<>>]

Awaiting(now, tried, contacted) ==
    [now |-> now, tried |-> tried, contacted |-> contacted]

\* What a step of the module did: the call, whether it was a forced refresh,
\* the SpiderJarInfo it returned (NoInfo while it goes on) and the candidates
\* it has contacted
JarEvent(op, c, forceRefresh, info, contacted) ==
    [op |-> op, call |-> c, forceRefresh |-> forceRefresh, info |-> info,
     contacted |-> contacted]

----------------------------------------------------------------------------
NoArray == Array(0, 0, 0)

(* The state after the component mounted: the first render pass and the    *)
(* effects of the mount have run (the reset effect sets the initial values *)
(* again)                                                                  *)

Mounted ==
    /\ columnCount \in ColumnCounts
    /\ IF grid = "search"
       THEN /\ filteredAggResults \in {Array(1, 1, n) : n \in AggLens}
            /\ filteredResults \in {Array(3, 2, n) : n \in SearchLens}
            /\ viewMode \in {"agg", "all"}
            /\ doubanData = NoArray
            /\ hasMore = FALSE
            /\ isLoadingMore = FALSE
       ELSE /\ filteredAggResults = NoArray
            /\ filteredResults = NoArray
            /\ viewMode = "all"
            /\ doubanData \in {Array(5, 3, n) : n \in DataLens}
            /\ hasMore \in BOOLEAN
            /\ isLoadingMore \in BOOLEAN
    /\ visibleItemCount = INITIAL_BATCH_SIZE(grid)
    /\ exposure = FirstRender(grid, viewMode, filteredAggResults, filteredResults,
                              doubanData, visibleItemCount, hasMore)
    /\ resetDeps = ResetEffectDeps(grid, exposure, viewMode, doubanData)
    /\ cellDataRef = CellData(exposure, viewMode, columnCount)
    /\ CellComponent = [deps |-> <<>>, val |-> 0]
    /\ stableCellProps =
           [deps |-> CellPropsDeps(policy, exposure, columnCount), val |-> 0]
    /\ groupStatsRef = <<>>
    /\ groupContent = 0
    /\ containerWidth \in ContainerWidths
    /\ pc = "idle"
    /\ timers = <<>>
    /\ burst = 0
    /\ calls = 0
    /\ ev = Event("mount", FALSE, FALSE, FALSE, 0, FALSE, 0)
    /\ cache = Null
    /\ clock = 0
    /\ invocations = [c \in Calls |-> NotCalled]
    /\ jev = JarEvent("load", 0, FALSE, NoInfo, <<>>)

\* One of the three current variants is mounted
Init ==
    /\ grid \in {"search", "douban"}
    /\ policy \in IF grid = "search" THEN {"buffered"} ELSE {"buffered", "exact"}
    /\ Mounted

\* The older search grid is mounted
OlderInit ==
    /\ grid = "search"
    /\ policy = "exact"
    /\ Mounted

----------------------------------------------------------------------------
(* The parent renders the component with new props *)

\* A render pass with new props or hook outputs and unchanged hook state
RenderPass ==
    /\ exposure' = Render(grid, viewMode', filteredAggResults', filteredResults',
                          doubanData', visibleItemCount, hasMore')
    /\ pc' = AfterRender(grid, exposure', viewMode', doubanData')
    /\ CellComponent' = CellComponentAfter
    /\ stableCellProps' = CellPropsAfter(exposure', columnCount')
    /\ cellDataRef' = CellDataAfter(pc', exposure', viewMode', columnCount')
    /\ timers' = MarkStale(timers,
                   DataSourceOf(grid, viewMode', filteredAggResults',
                                filteredResults', doubanData').ref
                       # dataSource.ref)
    /\ ev' = Event("props", FALSE, FALSE, FALSE, 0, FALSE, 0)
    /\ UNCHANGED <<jarVars, grid, policy, groupStatsRef, groupContent, visibleItemCount, resetDeps, burst, calls>>

\* A render pass in which the container width is the one measured before
Rerender == RenderPass /\ UNCHANGED containerWidth

\* Search page: new results (a new search, a new filter, a re-fetch)
NewResults(newAgg, newAll, nAgg, nAll) ==
    /\ grid = "search"
    /\ pc = "idle"
    /\ filteredAggResults' =
           IF newAgg THEN NewArray(filteredAggResults, nAgg)
           ELSE filteredAggResults
    /\ filteredResults' =
           IF newAll THEN NewArray(filteredResults, nAll) ELSE filteredResults
    /\ UNCHANGED <<doubanData, viewMode, hasMore, columnCount, isLoadingMore>>
    /\ Rerender

\* Search page: the user switches between aggregated and flat view
SetViewMode(vm) ==
    /\ grid = "search"
    /\ pc = "idle"
    /\ vm # viewMode
    /\ viewMode' = vm
    /\ UNCHANGED <<filteredAggResults, filteredResults, doubanData, hasMore,
                   columnCount, isLoadingMore>>
    /\ Rerender

\* Catalog page: a new array (new filter, re-fetch, or a page appended)
NewDoubanData(n) ==
    /\ grid = "douban"
    /\ pc = "idle"
    /\ doubanData' = NewArray(doubanData, n)
    /\ UNCHANGED <<filteredAggResults, filteredResults, viewMode, hasMore,
                   columnCount, isLoadingMore>>
    /\ Rerender

\* Catalog page: the parent owns the remote flags
SetHasMore(b) ==
    /\ grid = "douban"
    /\ pc = "idle"
    /\ b # hasMore
    /\ hasMore' = b
    /\ UNCHANGED <<filteredAggResults, filteredResults, doubanData, viewMode,
                   columnCount, isLoadingMore>>
    /\ Rerender

SetIsLoadingMore(b) ==
    /\ grid = "douban"
    /\ pc = "idle"
    /\ b # isLoadingMore
    /\ isLoadingMore' = b
    /\ UNCHANGED <<filteredAggResults, filteredResults, doubanData, viewMode,
                   hasMore, columnCount>>
    /\ Rerender

\* The layout provider reports another column count
\* The container is measured again with another width (ResizeObserver of
\* useResponsiveGrid)
Measure(w) ==
    /\ pc = "idle"
    /\ w # containerWidth
    /\ containerWidth' = w
    /\ UNCHANGED <<filteredAggResults, filteredResults, doubanData, viewMode,
                   hasMore, isLoadingMore, columnCount>>
    /\ RenderPass

Resize(cc) ==
    /\ pc = "idle"
    /\ cc # columnCount
    /\ columnCount' = cc
    /\ UNCHANGED <<filteredAggResults, filteredResults, doubanData, viewMode,
                   hasMore, isLoadingMore>>
    /\ Rerender

----------------------------------------------------------------------------
(* The reset effect runs after the render pass that changed its deps, and  *)
(* its state updates cause the next render pass                            *)

ResetCount(g) == INITIAL_BATCH_SIZE(g)

RunEffects ==
    /\ pc = "effects"
    /\ visibleItemCount' = ResetCount(grid)
    /\ isLoadingMore' = IF grid = "search" THEN FALSE ELSE isLoadingMore
    /\ resetDeps' = ResetEffectDeps(grid, exposure, viewMode, doubanData)
    /\ exposure' = Render(grid, viewMode, filteredAggResults, filteredResults,
                          doubanData, visibleItemCount', hasMore)
    /\ pc' = "idle"
    /\ CellComponent' = CellComponentAfter
    /\ stableCellProps' = CellPropsAfter(exposure', columnCount)
    /\ cellDataRef' = CellDataAfter(pc', exposure', viewMode, columnCount)
    /\ ev' = Event("reset", FALSE, FALSE, FALSE, 0, FALSE, 0)
    /\ UNCHANGED <<jarVars, grid, policy, groupStatsRef, groupContent, containerWidth, filteredAggResults, filteredResults, doubanData,
                   viewMode, hasMore, columnCount, timers, burst, calls>>

----------------------------------------------------------------------------
(* The scroll-proximity trigger: memoizedOnCellsRendered                   *)

\* (variant for C11: the buffered variants compare with the Grid's row count)
ShouldScheduleAtGridRows(rowStopIndex) ==
    /\ rowStopIndex >= rowCount - LOAD_MORE_THRESHOLD
    /\ hasNextPage
    /\ ~isLoadingMore

\* The condition under which the handler schedules a deferred call
ShouldSchedule(rowStopIndex) ==
    LET actualRowCount == Ceil(displayItemCount, columnCount)
        rows == IF policy = "buffered" THEN actualRowCount ELSE rowCount
    IN  /\ rowStopIndex >= rows - LOAD_MORE_THRESHOLD
        /\ hasNextPage
        /\ ~isLoadingMore

\* (variant for C12: the pending call is cleared only when a new one is
\* scheduled)
AfterNotificationKeepsWhenFar(rowStopIndex) ==
    IF ShouldSchedule(rowStopIndex)
    THEN Append(ClearDebounce(timers), DebounceTimer)
    ELSE timers

\* (variant for C13: the handler never clears the pending call)
AfterNotificationNoClear(rowStopIndex) ==
    IF ShouldSchedule(rowStopIndex) THEN Append(timers, DebounceTimer) ELSE timers

\* The pending timers after the handler ran
AfterNotification(rowStopIndex) ==
    IF ShouldSchedule(rowStopIndex)
    THEN Append(ClearDebounce(timers), DebounceTimer)
    ELSE ClearDebounce(timers)

\* The pending timers after the handler of the older search grid ran: it
\* calls setTimeout and keeps no handle
AfterNotificationOlder(rowStopIndex) ==
    IF ShouldSchedule(rowStopIndex) THEN Append(timers, DebounceTimer) ELSE timers

\* The Grid reports the rows it rendered; the handler is the one of the
\* last render pass
OnCellsRendered(rowStopIndex) ==
    /\ GridRendered
    /\ (Older /\ ShouldSchedule(rowStopIndex))
           => Cardinality(Debounces(timers)) < MaxPending
    /\ timers' = IF Older THEN AfterNotificationOlder(rowStopIndex)
                 ELSE AfterNotification(rowStopIndex)
    /\ burst' = IF ~ShouldSchedule(rowStopIndex) THEN 0
                ELSE IF Debounces(timers) = {} THEN 1
                ELSE Min(burst + 1, MaxBurst)
    /\ calls' = IF Debounces(timers) = {} \/ ~ShouldSchedule(rowStopIndex)
                THEN 0 ELSE calls
    /\ ev' = Event("notify", FALSE, FALSE, FALSE, rowStopIndex,
                   ~Older /\ Len(ClearDebounce(timers)) < Len(timers), 0)
    /\ UNCHANGED <<jarVars, grid, policy, groupStatsRef, groupContent, containerWidth, filteredAggResults, filteredResults, doubanData,
                   viewMode, hasMore, columnCount, visibleItemCount,
                   isLoadingMore, exposure, resetDeps, cellDataRef,
                   CellComponent, stableCellProps, pc>>

----------------------------------------------------------------------------
(* loadMoreItems, as the closure lm that a deferred call captured          *)

\* The fire-time check of the deferred call, on the values it captured
Revalidate(t) == ~t.isLoadingMore /\ t.hasNextPage

\* (variant for C6: the updater does not cap at the data length)
RevealMoreUncapped(prev, cap, batch) == prev + batch

\* (variant for C28: the updater only caps the count)
RevealMoreNoRaise(prev, cap, batch) == Min(prev, cap)

\* The state updater of loadMoreItems
RevealMore(prev, cap, batch) == Min(prev + batch, cap)

\* (variant for C14: the completion callback leaves the flag as it is)
LoadingAfterCompletionKept(cur) == cur

\* setIsLoadingMore(false) in the completion callback of the simulated load
LoadingAfterCompletion(cur) == FALSE

\* Search grid: does loadMoreItems start a simulated load
SearchStartsLoad(lm) == ~(lm.isLoadingMore \/ ~lm.hasNextPage)

\* Catalog grid: does loadMoreItems reveal local items
DoubanReveals(lm) == ~lm.isLoadingMore /\ lm.displayItemCount < lm.dataLength

\* Catalog grid: does loadMoreItems call onLoadMore
DoubanFetches(lm) ==
    /\ ~lm.isLoadingMore
    /\ ~(lm.displayItemCount < lm.dataLength)
    /\ lm.hasMore /\ ~lm.isLoadingMore

----------------------------------------------------------------------------
(* A timer fires *)

\* The render pass after a timer callback changed hook state
RerenderState ==
    /\ exposure' = Render(grid, viewMode, filteredAggResults, filteredResults,
                          doubanData, visibleItemCount', hasMore)
    /\ CellComponent' = CellComponentAfter
    /\ stableCellProps' = CellPropsAfter(exposure', columnCount)
    /\ cellDataRef' = CellDataAfter(pc, exposure', viewMode, columnCount)
    /\ UNCHANGED <<jarVars, grid, policy, groupStatsRef, groupContent, containerWidth, filteredAggResults, filteredResults, doubanData,
                   viewMode, hasMore, columnCount, resetDeps, pc, burst>>

\* The deferred call of the trigger fires
FireDebounce(i) ==
    LET t == timers[i]
        rest == Remove(timers, i)
        invoke == Revalidate(t)
    IN  /\ pc = "idle"
        /\ i \in Debounces(timers)
        /\ Fireable(timers, i)
        /\ IF grid = "search"
           THEN /\ isLoadingMore' =
                       IF invoke /\ SearchStartsLoad(t.lm) THEN TRUE
                       ELSE isLoadingMore
                /\ timers' =
                       IF invoke /\ SearchStartsLoad(t.lm)
                       THEN Append(rest, LoadTimer(t.lm))
                       ELSE rest
                /\ visibleItemCount' = visibleItemCount
                /\ ev' = Event("debounce", invoke, FALSE,
                               t.stale, 0, FALSE, 0)
           ELSE /\ isLoadingMore' = isLoadingMore
                /\ timers' = rest
                /\ visibleItemCount' =
                       IF invoke /\ DoubanReveals(t.lm)
                       THEN RevealMore(visibleItemCount, t.lm.dataLength,
                                       LOAD_MORE_BATCH_SIZE(grid))
                       ELSE visibleItemCount
                /\ ev' = Event("debounce", invoke,
                               invoke /\ DoubanFetches(t.lm),
                               t.stale, 0, FALSE, 0)
        /\ calls' = IF invoke THEN Min(calls + 1, MaxBurst) ELSE calls
        /\ RerenderState

\* The simulated load of the search grid completes
FireLoad(i) ==
    LET t == timers[i]
    IN  /\ pc = "idle"
        /\ i \in Loads(timers)
        /\ Fireable(timers, i)
        /\ visibleItemCount' =
               RevealMore(visibleItemCount, t.lm.totalItemCount,
                          LOAD_MORE_BATCH_SIZE(grid))
        /\ isLoadingMore' = LoadingAfterCompletion(isLoadingMore)
        /\ timers' = Remove(timers, i)
        /\ ev' = Event("load", FALSE, FALSE, t.stale, 0, FALSE, 0)
        /\ calls' = calls
        /\ RerenderState

----------------------------------------------------------------------------
(* The Grid executes the cell at (rowIndex, columnIndex), in a re-render   *)
(* of its own (a scroll).  In the aggregated view the cell of a group      *)
(* writes the statistics of the group to groupStatsRef when the key is     *)
(* new.  groupStatsRef is written by the cells and read by nothing in the  *)
(* component, so the trigger and the reveal are specified without it       *)
(* (Spec) and the cells without the timers (CellSpec).                     *)

CellRendered(rowIndex, columnIndex) ==
    LET cd == cellDataRef
        item == ResolveCell(cd, rowIndex, columnIndex)
    IN  /\ grid = "search"
        /\ pc = "idle"
        /\ GridRendered
        /\ rowIndex < rowCount
        /\ rowIndex * columnCount + columnIndex <= MaxCellIndex
        /\ groupStatsRef' =
               IF item # 0 /\ cd.viewMode = "agg"
               THEN CacheAfterCell(groupStatsRef, mapKey(item),
                                   computeGroupStats(group(item)))
               ELSE groupStatsRef
        /\ ev' = [card |-> IF item # 0 /\ cd.viewMode = "agg"
                            THEN LET stats == CardStats(groupStatsRef,
                                                        group(item),
                                                        mapKey(item))
                                 IN  [mapKey |-> mapKey(item),
                                      episodes |-> stats.episodes,
                                      type |-> type(stats),
                                      source |-> group(item)]
                            ELSE [mapKey |-> 0, episodes |-> 0,
                                  type |-> "none", source |-> 0]]
                 @@ Event("cell", FALSE, FALSE, FALSE, rowIndex, FALSE,
                          columnIndex)
        /\ UNCHANGED <<jarVars, grid, policy, filteredAggResults,
                       filteredResults,
                       doubanData, viewMode, hasMore, columnCount,
                       visibleItemCount, isLoadingMore, exposure, resetDeps,
                       cellDataRef, CellComponent, stableCellProps,
                       groupContent, containerWidth, pc, timers, burst,
                       calls>>

\* The parent changes the members of the groups in place (a source adds an
\* episode list to a group): the results array is the same object, so no
\* prop changes and no render pass runs
MutateGroup ==
    /\ grid = "search"
    /\ filteredAggResults.len > 0
    /\ groupContent' = 1 - groupContent
    /\ UNCHANGED <<jarVars, grid, policy, filteredAggResults, filteredResults,
                   doubanData, viewMode, hasMore, columnCount,
                   visibleItemCount, isLoadingMore, exposure, resetDeps,
                   cellDataRef, CellComponent, stableCellProps, groupStatsRef,
                   containerWidth, pc, timers, burst, calls, ev>>

----------------------------------------------------------------------------

Next ==
    \/ \E n \in AggLens : NewResults(TRUE, FALSE, n, n)
    \/ \E n \in SearchLens : NewResults(FALSE, TRUE, n, n)
    \/ \E nAgg \in AggLens, nAll \in SearchLens :
           NewResults(TRUE, TRUE, nAgg, nAll)
    \/ \E vm \in {"agg", "all"} : SetViewMode(vm)
    \/ \E n \in DataLens : NewDoubanData(n)
    \/ \E b \in BOOLEAN : SetHasMore(b)
    \/ \E b \in BOOLEAN : SetIsLoadingMore(b)
    \/ \E cc \in ColumnCounts : Resize(cc)
    \/ RunEffects
    \/ \E rowStopIndex \in {0, rowCount - 1} : OnCellsRendered(rowStopIndex)
    \/ \E i \in 1..Len(timers) : FireDebounce(i)
    \/ \E i \in 1..Len(timers) : FireLoad(i)

Spec == Init /\ [][Next]_vars

CellInit == Init /\ grid = "search"

CellNext ==
    \/ \E n \in AggLens : NewResults(TRUE, FALSE, n, n)
    \/ \E n \in SearchLens : NewResults(FALSE, TRUE, n, n)
    \/ \E nAgg \in AggLens, nAll \in SearchLens :
           NewResults(TRUE, TRUE, nAgg, nAll)
    \/ \E vm \in {"agg", "all"} : SetViewMode(vm)
    \/ \E cc \in ColumnCounts : Resize(cc)
    \/ RunEffects
    \/ MutateGroup
    \/ \E rowIndex \in 0..MaxCellIndex, columnIndex \in 0..(columnCount - 1) :
           CellRendered(rowIndex, columnIndex)

CellSpec == CellInit /\ [][CellNext]_vars

\* The render branches: the data sources and the measured width change, the
\* Grid notifies when it is rendered
LayoutNext ==
    \/ \E nAgg \in AggLens, nAll \in SearchLens :
           NewResults(TRUE, TRUE, nAgg, nAll)
    \/ \E vm \in {"agg", "all"} : SetViewMode(vm)
    \/ \E n \in DataLens : NewDoubanData(n)
    \/ \E w \in ContainerWidths : Measure(w)
    \/ RunEffects
    \/ \E rowStopIndex \in {0, rowCount - 1} : OnCellsRendered(rowStopIndex)

LayoutSpec == Init /\ [][LayoutNext]_vars

\* A notification that meets the trigger condition
TriggerNotification ==
    \E rowStopIndex \in {0, rowCount - 1} :
        ShouldSchedule(rowStopIndex) /\ OnCellsRendered(rowStopIndex)

\* One data source that does not change: the Grid notifies and the timers
\* fire.  The user keeps scrolling near the end (a notification that meets
\* the condition arrives whenever it can); the event loop runs every
\* setTimeout callback that is due, and a deferred call is due when no
\* further notification arrives within its delay: that happens again and
\* again, so a deferred call that is pending again and again fires (a later
\* notification may cancel one that is pending).
ProgressNext ==
    \/ \E rowStopIndex \in {0, rowCount - 1} : OnCellsRendered(rowStopIndex)
    \/ \E i \in 1..Len(timers) : FireDebounce(i)
    \/ \E i \in 1..Len(timers) : FireLoad(i)

ProgressSpec ==
    /\ Init
    /\ [][ProgressNext]_vars
    /\ WF_vars(TriggerNotification)
    /\ SF_vars(\E i \in 1..Len(timers) : FireDebounce(i))
    /\ WF_vars(\E i \in 1..Len(timers) : FireLoad(i))

\* The older search grid over one data source: the Grid notifies and the
\* timers fire
OlderNext ==
    \/ \E rowStopIndex \in {0, rowCount - 1} : OnCellsRendered(rowStopIndex)
    \/ \E i \in 1..Len(timers) : FireDebounce(i)
    \/ \E i \in 1..Len(timers) : FireLoad(i)

OlderSpec == OlderInit /\ [][OlderNext]_vars

----------------------------------------------------------------------------
(* The spider jar module (part_001).  getSpiderJar is an async function:   *)
(* a call runs without interruption up to an await of fetchRemote, and     *)
(* other calls and the clock advance while it is suspended there.          *)

\* The urls, named by their position in the list
CANDIDATES == <<1, 2, 3, 4, 5, 6, 7>>

NUM_CANDIDATES == Len(CANDIDATES)

\* source: 'fallback', and the content of the built-in jar
Fallback == 0

FallbackBuffer == 0

\* fetchRemote returned null
NoBuffer == -1

\* The outcome of fetch(url): it threw (network error, abort by the
\* timeout), or a response with a status and a body of byteLength bytes
Response(threw, status, byteLength) ==
    [threw |-> threw, status |-> status, byteLength |-> byteLength]

Responses ==
    {Response(TRUE, 0, 0),
     Response(FALSE, 200, MIN_JAR_BYTES),
     Response(FALSE, 200, MIN_JAR_BYTES - 1),
     Response(FALSE, 304, MIN_JAR_BYTES),
     Response(FALSE, ERROR_STATUS, MIN_JAR_BYTES)}

\* resp.ok
Ok(status) == status >= 200 /\ status <= 299

\* fetchRemote(url): the content served by the url, or null
fetchRemote(url, resp) ==
    IF resp.threw THEN NoBuffer
    ELSE IF ~Ok(resp.status) \/ resp.status >= ERROR_STATUS THEN NoBuffer
    ELSE IF resp.byteLength < MIN_JAR_BYTES THEN NoBuffer
    ELSE url

\* (variant for C23: an entry whose age equals the TTL still counts)
CacheFreshInclusive(forceRefresh, cch, now) ==
    ~forceRefresh /\ cch # Null /\ now - cch.timestamp <= TTL

\* if (!forceRefresh && cache && now - cache.timestamp < TTL)
CacheFresh(forceRefresh, cch, now) ==
    ~forceRefresh /\ cch # Null /\ now - cch.timestamp < TTL

\* (variant for C24: tried counts the candidates that failed before)
RemoteInfoFailuresOnly(inv, buf) ==
    SpiderJarInfo(buf, CANDIDATES[inv.tried], TRUE, FALSE, inv.now,
                  inv.tried - 1)

\* The info of a candidate that yielded a buffer
RemoteInfo(inv, buf) ==
    SpiderJarInfo(buf, CANDIDATES[inv.tried], TRUE, FALSE, inv.now, inv.tried)

\* The info of the built-in jar
FallbackInfo(inv) ==
    SpiderJarInfo(FallbackBuffer, Fallback, FALSE, FALSE, inv.now, inv.tried)

\* (variant for C25: the fallback is returned but not cached)
CacheAfterFallbackKept(cch, info) == cch

\* cache = info; // still cache fallback to avoid hammering
CacheAfterFallback(cch, info) == info

\* The next iteration of the loop: tried += 1 and the fetch of that url
NextCandidate(inv) ==
    Awaiting(inv.now, inv.tried + 1,
             Append(inv.contacted, CANDIDATES[inv.tried + 1]))

\* getSpiderJar(forceRefresh) is called and runs to its return or to the
\* await of the first candidate
GetSpiderJar(c, forceRefresh) ==
    LET now == clock
    IN  /\ invocations[c] = NotCalled
        /\ \A d \in Calls : d < c => invocations[d] # NotCalled
        /\ IF CacheFresh(forceRefresh, cache, now)
           THEN /\ jev' = JarEvent("hit", c, forceRefresh,
                                   [cache EXCEPT !.cached = TRUE], <<>>)
                /\ invocations' = [invocations EXCEPT ![c] = Returned]
           ELSE /\ invocations' =
                       [invocations EXCEPT
                           ![c] = Awaiting(now, 1, <<CANDIDATES[1]>>)]
                /\ jev' = JarEvent("probe", c, forceRefresh, NoInfo,
                                   <<CANDIDATES[1]>>)
        /\ UNCHANGED <<cache, clock, viewVars>>

\* The fetch a call awaits resolves: the call caches and returns the jar,
\* goes on to the next candidate, or caches and returns the fallback
FetchResolved(c, resp) ==
    LET inv == invocations[c]
        buf == fetchRemote(CANDIDATES[inv.tried], resp)
    IN  /\ inv \notin {NotCalled, Returned}
        /\ IF buf # NoBuffer
           THEN /\ cache' = RemoteInfo(inv, buf)
                /\ invocations' = [invocations EXCEPT ![c] = Returned]
                /\ jev' = JarEvent("success", c, FALSE, RemoteInfo(inv, buf),
                                   inv.contacted)
           ELSE IF inv.tried < NUM_CANDIDATES
           THEN /\ invocations' = [invocations EXCEPT ![c] = NextCandidate(inv)]
                /\ jev' = JarEvent("probe", c, FALSE, NoInfo,
                                   NextCandidate(inv).contacted)
                /\ UNCHANGED cache
           ELSE /\ cache' = CacheAfterFallback(cache, FallbackInfo(inv))
                /\ invocations' = [invocations EXCEPT ![c] = Returned]
                /\ jev' = JarEvent("fallback", c, FALSE, FallbackInfo(inv),
                                   inv.contacted)
        /\ UNCHANGED <<clock, viewVars>>

\* Time passes
Tick(t) ==
    /\ t > clock
    /\ clock' = t
    /\ UNCHANGED <<cache, invocations, jev, viewVars>>

\* The module is loaded next to one idle, empty catalog grid
JarInit ==
    /\ Init
    /\ grid = "douban"
    /\ policy = "exact"
    /\ doubanData.len = 0
    /\ ~hasMore
    /\ ~isLoadingMore
    /\ columnCount = NarrowColumns
    /\ containerWidth = 0

JarNext ==
    \/ \E c \in Calls, forceRefresh \in BOOLEAN : GetSpiderJar(c, forceRefresh)
    \/ \E c \in Calls, resp \in Responses : FetchResolved(c, resp)
    \/ \E t \in Times : Tick(t)

JarSpec == JarInit /\ [][JarNext]_vars

\* A simulated load that is due completes and effects that are due run: the
\* event loop runs every setTimeout callback and React flushes every passive
\* effect
FairSpec ==
    /\ Spec
    /\ WF_vars(\E i \in 1..Len(timers) : FireLoad(i))
    /\ WF_vars(RunEffects)

----------------------------------------------------------------------------
(* Properties *)

\* The deferred call of the trigger fired in this step and called loadMoreItems
RequestMoreStep == ev'.op = "debounce" /\ ev'.requestMore

\* The identity of the data source changes in this step
SourceChangeStep == dataSource'.ref # dataSource.ref

\* The reset effect runs in this step
ResetStep == pc = "effects" /\ pc' = "idle"

\* C1: while a load is in flight, an invocation of loadMoreItems (also one
\* issued by a deferred call scheduled earlier) leaves visibleItemCount
\* unchanged and does not call onLoadMore.
C1_IdempotentWhileLoading ==
    [][(RequestMoreStep /\ isLoadingMore)
          => (visibleItemCount' = visibleItemCount /\ ~ev'.onLoadMore)]_vars

\* C2: the completion of a load that was started under a previous data
\* source changes neither visibleItemCount nor isLoadingMore.
C2_StaleLoadDoesNotMutate ==
    [][(ev'.op = "load" /\ ev'.stale)
          => (visibleItemCount' = visibleItemCount
              /\ isLoadingMore' = isLoadingMore)]_vars

\* C3: notifications that each meet the trigger condition and arrive before
\* the deferred call fires produce exactly one invocation of loadMoreItems:
\* while the deferred call is pending there has been none, and once it has
\* fired there has been exactly one.
C3_DebounceCoalescing ==
    burst >= 1 =>
        \/ Cardinality(Debounces(timers)) = 1 /\ calls = 0
        \/ Debounces(timers) = {} /\ calls = 1

\* C3 witness: several notifications were coalesced and the one deferred call
\* has fired
C3_Witness ==
    burst = MaxBurst /\ ev.op = "debounce" /\ ev.requestMore /\ calls = 1

\* C4: the deferred call invokes loadMoreItems only if, in the state at fire
\* time, hasNextPage is true and no load is in flight.
C4_RevalidatedAtFireTime ==
    [][RequestMoreStep => (hasNextPage /\ ~isLoadingMore)]_vars

\* C5: onLoadMore is called only when every locally known item is exposed
\* and the remote source has more; while items are unexposed loadMoreItems
\* never calls it.
C5_LocalRevealPreferred ==
    [][ev'.onLoadMore
          => (displayItemCount = dataSource.len /\ hasMore)]_vars

\* The deferred call or the simulated load that fires in a step of that kind
\* (at most one of each kind is pending)
FiredDebounce == timers[CHOOSE i \in Debounces(timers) : TRUE]

FiredLoad == timers[CHOOSE i \in Loads(timers) : TRUE]

C7_Monotonic ==
    [][visibleItemCount' < visibleItemCount => ResetStep]_vars

\* C8: every change of the data source reference makes the reset effect due,
\* and the reset sets visibleItemCount to the initial batch size and, in the
\* search grid, isLoadingMore to false.
C8_ResetOnSourceChange ==
    [][/\ SourceChangeStep => pc' = "effects"
       /\ ResetStep =>
              /\ visibleItemCount' = INITIAL_BATCH_SIZE(grid)
              /\ grid = "search" => ~isLoadingMore']_vars

\* C8 witness: the reset ran in the search grid while a simulated load was
\* pending (isLoadingMore was true, and the reset cleared it)
C8_Witness ==
    /\ ev.op = "reset"
    /\ grid = "search"
    /\ Loads(timers) # {}
    /\ ~isLoadingMore
    /\ visibleItemCount = SEARCH_INITIAL_BATCH_SIZE

\* C9: the render pass that first sees a new data source computes its
\* exposure from the reset visibleItemCount, never from the count of the
\* previous source.
C9_ResetBeforeExposure ==
    [][SourceChangeStep
          => exposure'.val.displayItemCount
                 = Min(INITIAL_BATCH_SIZE(grid), dataSource'.len)]_vars

\* C10: the exposure of the last render pass is the prefix of the current
\* data source of length min(visibleItemCount, length), and hasNextPage
\* says that items are unexposed or the remote source has more (which the
\* search grid never has).
C10_ExposureInvariant ==
    /\ displayItemCount = Min(visibleItemCount, dataSource.len)
    /\ displayData = Slice(dataSource, displayItemCount)
    /\ hasNextPage = (displayItemCount < dataSource.len \/ hasMore)
    /\ grid = "search" => ~hasMore

\* C10 witness: a partial exposure after a reveal, in the catalog grid with
\* the remote flag changed since
C10_Witness ==
    /\ grid = "douban"
    /\ ev.op = "props"
    /\ visibleItemCount > DOUBAN_INITIAL_BATCH_SIZE
    /\ displayItemCount = dataSource.len
    /\ hasNextPage

\* The visible-range handler ran in this step / while a deferred call was
\* pending
NotifyStep == ev'.op = "notify"

Pending == Debounces(timers) # {}

\* Rows of exposed items: ceil(displayItemCount / columnCount)
ExposedRows ==
    IF displayItemCount = 0 THEN 0 ELSE ((displayItemCount - 1) \div columnCount) + 1

\* C11 as stated: in state idle a notification schedules a deferred call iff
\* lastRow >= rowCount - LOAD_MORE_THRESHOLD, hasNextPage and no load in
\* flight, rowCount being the row count handed to the Grid (buffer rows
\* included).
C11_TriggerAtGridRowCount ==
    [][(NotifyStep /\ ~Pending)
          => (Debounces(timers') # {}
                <=> (/\ ev'.row >= rowCount - LOAD_MORE_THRESHOLD
                     /\ hasNextPage
                     /\ ~isLoadingMore))]_vars

\* C11 amended: in state idle a notification schedules a deferred call iff
\* lastRow >= R - LOAD_MORE_THRESHOLD, hasNextPage and no load in flight,
\* where R is the Grid's row count under the exact policy and, under the
\* buffered policy, the number of rows of exposed items
\* ceil(displayItemCount / columnCount), buffer rows not included.
C11_TriggerAtExposedRows ==
    [][(NotifyStep /\ ~Pending)
          => (Debounces(timers') # {}
                <=> (/\ ev'.row >= (IF policy = "buffered" THEN ExposedRows
                                    ELSE rowCount) - LOAD_MORE_THRESHOLD
                     /\ hasNextPage
                     /\ ~isLoadingMore))]_vars

\* C11 witness: under the buffered policy a notification for row 0, more
\* than LOAD_MORE_THRESHOLD rows above the Grid's last row, scheduled a
\* deferred call from idle
C11_Witness ==
    /\ policy = "buffered"
    /\ ev.op = "notify" /\ ~ev.cancelled
    /\ ev.row < rowCount - LOAD_MORE_THRESHOLD
    /\ Pending

\* C12 as stated: a notification that arrives while a deferred call is
\* pending leaves a deferred call pending.
C12_StaysPending ==
    [][(NotifyStep /\ Pending) => Debounces(timers') # {}]_vars

\* C12 amended: a notification that arrives while a deferred call is
\* pending cancels that call; it schedules a new one iff it meets the
\* trigger condition itself, otherwise the trigger is idle again without a
\* call having fired.
C12_CancelThenReschedule ==
    [][(NotifyStep /\ Pending)
          => /\ ev'.cancelled
             /\ Loads(timers') = Loads(ClearDebounce(timers))
             /\ Cardinality(Debounces(timers')) <= 1
             /\ Debounces(timers') # {}
                  <=> (/\ ev'.row >= (IF policy = "buffered" THEN ExposedRows
                                      ELSE rowCount) - LOAD_MORE_THRESHOLD
                       /\ hasNextPage
                       /\ ~isLoadingMore)
             /\ Debounces(timers') # {}
                  => /\ Debounces(timers') = {Len(timers')}
                     /\ ~timers'[Len(timers')].stale
             /\ visibleItemCount' = visibleItemCount
             /\ calls' = calls \/ calls' = 0]_vars

\* C12 witness: a notification that did not meet the trigger condition
\* cancelled the pending call
C12_Witness ==
    ev.op = "notify" /\ ev.cancelled /\ ~Pending

\* C13: at most one deferred call of the trigger is pending.
C13_AtMostOnePending == Cardinality(Debounces(timers)) <= 1

\* C13 witness: a notification arrived while a deferred call was pending,
\* and one deferred call is pending after it
C13_Witness ==
    ev.op = "notify" /\ ev.cancelled /\ Cardinality(Debounces(timers)) = 1

\* C14: in the search grid isLoadingMore, once true, becomes false again (the
\* simulated load completes or the reset effect runs), and with the flag
\* false a notification that meets the rest of the trigger condition
\* schedules a deferred call.
C14_NoStuckFlag ==
    /\ (grid = "search" /\ isLoadingMore) ~> ~isLoadingMore
    /\ [][(/\ NotifyStep /\ grid = "search" /\ ~isLoadingMore
            /\ hasNextPage
            /\ ev'.row >= ExposedRows - LOAD_MORE_THRESHOLD)
              => Debounces(timers') # {}]_vars

\* C14 witness: the flag was set and cleared by the completion of a load, and
\* the next notification scheduled a deferred call
C14_Witness ==
    /\ grid = "search"
    /\ visibleItemCount > SEARCH_INITIAL_BATCH_SIZE
    /\ ~isLoadingMore
    /\ ev.op = "notify"
    /\ Pending

\* A step with a render pass in which the Grid is rendered, so that cells
\* execute: new props, or hook state that changed (a state update to the
\* same value causes no pass); the Grid is not rendered for an empty data
\* source
RenderPassStep ==
    /\ \/ ev'.op = "props"
       \/ /\ ev'.op \in {"reset", "debounce", "load"}
          /\ <<visibleItemCount', isLoadingMore'>>
                 # <<visibleItemCount, isLoadingMore>>
    /\ GridRendered'

\* What the cells that execute in the render pass of this step obtain
CellsSee == getCellData(exposure', columnCount')

\* C15: the values a cell obtains through the accessor are the exposure and
\* layout of the render pass in which it executes; in the pass that follows
\* an increase of visibleItemCount every cell with index < displayItemCount
\* resolves to an item.
C15_FreshCellData ==
    [][RenderPassStep
          => /\ CellsSee = CellData(exposure', viewMode', columnCount')
             /\ visibleItemCount' > visibleItemCount
                  => \A index \in 0..(displayItemCount' - 1) :
                         ResolveCell(CellsSee, index \div columnCount',
                                     index % columnCount') # 0]_vars

C17_CellsTileGrid ==
    [][RenderPassStep
          => /\ \A row \in 0..(rowCount' - 1), col \in 0..(columnCount' - 1) :
                   LET index == row * columnCount' + col
                   IN  ResolveCell(CellsSee, row, col)
                          = IF index >= displayItemCount' THEN 0
                            ELSE displayData'[index + 1]
             /\ \A i \in 1..displayItemCount' :
                   Cardinality({rc \in (0..(rowCount' - 1))
                                         \X (0..(columnCount' - 1)) :
                                   ResolveCell(CellsSee, rc[1], rc[2])
                                      = displayData'[i]}) = 1]_vars

\* Data length and revealed count of the current state
ExposedNow == Min(visibleItemCount, dataSource.len)

\* C18: under the exact policy rowCount is
\* max(1, ceil(min(visibleItemCount, N) / columnCount)), N the data length.
C18_ExactGeometry ==
    policy = "exact" =>
        rowCount = IF ExposedNow = 0 THEN 1
                   ELSE ((ExposedNow - 1) \div columnCount) + 1

\* C18 witness: after one reveal of a long catalog the exact row count is
\* the ceiling of two batches over the column count; and the floor of one
\* row is what an empty catalog gets
C18_Witness ==
    /\ policy = "exact"
    /\ visibleItemCount = DOUBAN_INITIAL_BATCH_SIZE + DOUBAN_LOAD_MORE_BATCH_SIZE
    /\ dataSource.len = MaxLen
    /\ rowCount * columnCount >= visibleItemCount
    /\ (rowCount - 1) * columnCount < visibleItemCount

\* C19 as stated: under the buffered policy rowCount is
\* max(1, ceil(displayItemCount / columnCount)) + ceil(BUFFER_ITEMS / columnCount).
C19_BufferedGeometry ==
    policy = "buffered" =>
        rowCount = Max(1, ExposedRows)
                     + ((BUFFER_ITEMS(grid) - 1) \div columnCount) + 1

\* C19 amended: under the buffered policy rowCount is
\* max(1, ceil(displayItemCount / columnCount) + ceil(BUFFER_ITEMS / columnCount)):
\* the rows of exposed items plus the buffer rows, which is the stated sum
\* whenever an item is exposed and the buffer rows alone when none is.
C19_BufferedGeometryFloorLast ==
    policy = "buffered" =>
        /\ rowCount = Max(1, ExposedRows
                               + ((BUFFER_ITEMS(grid) - 1) \div columnCount) + 1)
        /\ displayItemCount = 0
             => rowCount = ((BUFFER_ITEMS(grid) - 1) \div columnCount) + 1

\* C19 witness: an empty data source under the buffered policy
C19_Witness ==
    policy = "buffered" /\ displayItemCount = 0 /\ ev.op = "props"

\* The item of the cell that the Grid executed in the last step (0: none)
CellItem == ResolveCell(cellDataRef, ev.row, ev.column)

\* C20: a cell resolution inserts the statistics of a group whose key is not
\* in groupStatsRef, and no cell resolution changes or removes an entry.
C20_CacheWriteOnce ==
    [][ev'.op = "cell"
          => /\ \A k \in DOMAIN groupStatsRef :
                   /\ k \in DOMAIN groupStatsRef'
                   /\ groupStatsRef'[k] = groupStatsRef[k]
             /\ LET item == ResolveCell(cellDataRef, ev'.row, ev'.column)
                IN  IF /\ item # 0
                       /\ cellDataRef.viewMode = "agg"
                       /\ mapKey(item) \notin DOMAIN groupStatsRef
                    THEN /\ DOMAIN groupStatsRef'
                              = DOMAIN groupStatsRef \cup {mapKey(item)}
                         /\ groupStatsRef'[mapKey(item)]
                              = computeGroupStats(group(item))
                    ELSE groupStatsRef' = groupStatsRef]_vars

\* C20 witness: the cell of a group resolved whose key is cached with the
\* statistics of an earlier results array, and the entry is the earlier one
C20_Witness ==
    /\ ev.op = "cell"
    /\ CellItem # 0
    /\ cellDataRef.viewMode = "agg"
    /\ mapKey(CellItem) \in DOMAIN groupStatsRef
    /\ groupStatsRef[mapKey(CellItem)] # computeGroupStats(group(CellItem))
    /\ Cardinality(DOMAIN groupStatsRef) > 1

\* A step in which a cell executes (the parent's change of a group leaves
\* the record of the last step as it is)
CellStep == ev'.op = "cell" /\ groupContent' = groupContent

\* C21: when the cell of a group key executes again under the same data
\* source identity, the statistics on the emitted card (episodes and the
\* movie/series kind) are those of the previous resolution and those of the
\* cached entry, also when the members of the group changed in between.
C21_CardShowsCachedStats ==
    [][(/\ CellStep
        /\ ev'.card.mapKey # 0
        /\ ev.op = "cell"
        /\ ev.card.mapKey = ev'.card.mapKey
        /\ ev.card.source = ev'.card.source)
          => /\ ev'.card.episodes = ev.card.episodes
             /\ ev'.card.type = ev.card.type
             /\ ev'.card.episodes
                    = groupStatsRef'[ev'.card.mapKey].episodes]_vars

\* The branch rendered in the current state
Branch == RenderBranch(totalItemCount, containerWidth)

\* The Grid branch implies items and a measured width; items on a width at
\* or below the threshold give the initializing placeholder
BranchGuarded ==
    /\ (Branch = "grid")
           => (dataSource.len > 0 /\ containerWidth > MIN_CONTAINER_WIDTH)
    /\ (dataSource.len > 0 /\ containerWidth <= MIN_CONTAINER_WIDTH)
           => (Branch = "initializing")

\* C22: the Grid is rendered only when the data source is not empty and the
\* measured container width exceeds MIN_CONTAINER_WIDTH; with items and a
\* width at or below it the initializing placeholder is rendered; and a
\* visible-range notification comes only from a Grid rendered on a measured
\* container.
C22_GridOnlyWhenMeasured ==
    /\ []BranchGuarded
    /\ [][NotifyStep
              => (dataSource.len > 0
                  /\ containerWidth > MIN_CONTAINER_WIDTH)]_vars

\* C22 witness: the Grid was rendered and scheduled a deferred call, then the
\* container was measured at the threshold: the initializing placeholder is
\* rendered over a data source that has items
C22_Witness ==
    /\ containerWidth = MIN_CONTAINER_WIDTH
    /\ dataSource.len > 0
    /\ Branch = "initializing"
    /\ ev.op = "props"
    /\ Debounces(timers) # {}

----------------------------------------------------------------------------
(* The spider jar module *)

\* Call c is made in this step / a step of the module of the given kind
CallStep(c) == invocations[c] = NotCalled /\ invocations'[c] # NotCalled

JarStep(op) == jev'.op = op /\ jev' # jev

\* The first n candidates in list order
FirstCandidates(n) == [i \in 1..n |-> CANDIDATES[i]]

\* C23: a call without forceRefresh that finds a cache entry younger than
\* the TTL contacts no candidate, leaves the cache as it is and returns the
\* fields of the entry with cached = true; a call with forceRefresh, or with
\* no entry or an entry of age TTL or more, probes the candidates.
C23_CacheHit ==
    [][\A c \in Calls :
          CallStep(c) =>
              IF /\ ~jev'.forceRefresh
                 /\ cache # Null
                 /\ clock - cache.timestamp < TTL
              THEN /\ invocations'[c] = Returned
                   /\ jev'.contacted = <<>>
                   /\ cache' = cache
                   /\ jev'.info = [cache EXCEPT !.cached = TRUE]
              ELSE /\ invocations'[c].contacted = FirstCandidates(1)
                   /\ jev'.info = NoInfo]_vars

\* C23 witness: a call returned the cached remote jar one millisecond before
\* the entry expires
C23_Witness ==
    /\ jev.op = "hit"
    /\ cache # Null
    /\ cache.success
    /\ clock - cache.timestamp = TTL - 1
    /\ jev.info.cached

\* C24: every call has contacted the candidates in list order up to the one
\* it awaits, and the call whose fetch yields a buffer returns at once with
\* success = true, source = that candidate, tried = its 1-based position,
\* and the cache holds exactly the returned info.
C24_FirstSuccessWins ==
    [][/\ \A c \in Calls :
              invocations'[c].contacted
                  = FirstCandidates(Len(invocations'[c].contacted))
       /\ JarStep("success")
              => LET info == jev'.info
                     k == Len(jev'.contacted)
                 IN  /\ jev'.contacted = FirstCandidates(k)
                     /\ info.success
                     /\ ~info.cached
                     /\ info.source = CANDIDATES[k]
                     /\ info.buffer = CANDIDATES[k]
                     /\ info.tried = k
                     /\ cache' = info
                     /\ invocations'[jev'.call] = Returned]_vars

\* C24 witness: the last candidate of the list yielded the jar after all
\* the others failed
C24_Witness ==
    /\ jev.op = "success"
    /\ jev.info.tried = NUM_CANDIDATES
    /\ cache = jev.info

\* C25: a fetch that throws, a status of ERROR_STATUS or more and a body
\* under MIN_JAR_BYTES bytes are failures; the call whose last candidate
\* fails returns the built-in jar with success = false, source = 'fallback'
\* and tried = NUM_CANDIDATES and caches it; and a call without forceRefresh
\* that finds a cached fallback younger than the TTL returns it with
\* cached = true and contacts no candidate.
C25_FallbackCached ==
    [][/\ JarStep("fallback")
              => /\ \A resp \in Responses :
                        (\/ resp.threw
                         \/ resp.status >= ERROR_STATUS
                         \/ resp.byteLength < MIN_JAR_BYTES)
                            => fetchRemote(CANDIDATES[1], resp) = NoBuffer
                 /\ jev'.contacted = FirstCandidates(NUM_CANDIDATES)
                 /\ jev'.info = SpiderJarInfo(FallbackBuffer, Fallback, FALSE,
                                              FALSE, jev'.info.timestamp,
                                              NUM_CANDIDATES)
                 /\ cache' = jev'.info
       /\ \A c \in Calls :
              (/\ CallStep(c)
               /\ ~jev'.forceRefresh
               /\ cache # Null
               /\ cache.source = Fallback
               /\ clock - cache.timestamp < TTL)
                  => /\ jev'.info = [cache EXCEPT !.cached = TRUE]
                     /\ ~jev'.info.success
                     /\ jev'.contacted = <<>>
                     /\ invocations'[c] = Returned]_vars

\* C25 witness: a later call got the cached fallback
C25_Witness ==
    /\ jev.op = "hit"
    /\ jev.info.source = Fallback
    /\ jev.info.cached
    /\ jev.info.tried = NUM_CANDIDATES
    /\ clock > jev.info.timestamp

\* C29: when the cache entry is replaced, the timestamp of the new entry is
\* not older than that of the entry it replaces, and a successful remote jar
\* is not replaced by a fallback.
C29_CacheNeverOlder ==
    [][(cache # Null /\ cache' # cache)
          => /\ cache'.timestamp >= cache.timestamp
             /\ cache.success => cache'.success]_vars

----------------------------------------------------------------------------
(* The trigger across data sources and in the older search grid *)

\* C26: a deferred call that fires after the identity of the data source
\* changed since it was scheduled does not raise visibleItemCount, does not
\* call onLoadMore and does not start a load.
C26_StaleDeferredCallInert ==
    [][(ev'.op = "debounce" /\ ev'.stale)
          => /\ visibleItemCount' = visibleItemCount
             /\ ~ev'.onLoadMore
             /\ isLoadingMore' = isLoadingMore
             /\ Loads(timers') = {}]_vars

\* C27: in the older search grid at most one simulated load is in flight,
\* and a burst of two or more notifications that each meet the trigger
\* condition has led to at most one invocation of loadMoreItems that passed
\* its guard (one raise by LOAD_MORE_BATCH_SIZE).
C27_BurstRevealsOnce ==
    Older => /\ Cardinality(Loads(timers)) <= 1
             /\ burst >= 2 => calls <= 1

\* What the remote source reports: only the catalog grid has one
RemoteHasMore == grid = "douban" /\ hasMore

\* C28: over one data source, with the Grid rendered and no load in flight
\* in the parent, every item is exposed eventually and hasNextPage then is
\* what the remote source reports; and a pending deferred call eventually
\* fires, which leaves no call pending.
C28_RevealProgress ==
    /\ (GridRendered /\ (grid = "douban" => ~isLoadingMore))
           ~> (displayItemCount = dataSource.len
               /\ hasNextPage = RemoteHasMore)
    /\ Pending ~> ~Pending

\* C28 witness: two simulated loads have exposed all of a search result
\* list of more than two batches, and no deferred call is pending
C28_Witness ==
    /\ grid = "search"
    /\ dataSource.len = TwoBatchLen
    /\ displayItemCount = dataSource.len
    /\ ~hasNextPage
    /\ ~Pending
    /\ ev.op = "load"

====
